---- MODULE Spec2Model ----
(***************************************************************************)
(* Merge-conflict resolution of autogit_remote                             *)
(* (src/tools/merge_conflict_tool.py).                                     *)
(*                                                                         *)
(* A Python string is represented by the sequence of its lines, i.e. by    *)
(* the value of s.split('\n'): a non-empty sequence of newline-free lines  *)
(* (the empty string is <<"">>).  Lines are drawn from a finite alphabet;  *)
(* the character-level tests of the code (startswith, strip, the regular   *)
(* expressions of _clean_output, compile()) are given line by line on      *)
(* that alphabet.  Line numbers are the 0-based indices of the code.       *)
(***************************************************************************)
EXTENDS Integers, Sequences, FiniteSets, TLC

VARIABLES
    disk,            \* working tree: file -> [lines, crlf]
    orig_disk,       \* the working tree before the operation started
    layout,          \* file -> the segments its initial text was built from
    readable,        \* file -> whether open(file, 'r') succeeds
    index,           \* files staged by git add
    git_ok,          \* whether `git diff --name-only --diff-filter=U` exits 0
    git_unmerged,    \* the paths that command prints
    llm_loads,       \* whether the text-generation pipeline can be constructed
    pc,              \* position in the running operation
    strategy,        \* argument of resolve_conflicts
    strat,           \* ResolutionStrategy member
    conflicted_files,
    fi,              \* position of file_path in conflicted_files (1-based)
    conflicts, analyses, resolutions, all_valid,
    ci,              \* position in the per-conflict loops (1-based)
    total_conflicts, resolved_count, failed_files,
    resolved_content,\* apply_resolution: the reconstructed text
    final_valid,     \* apply_resolution: is_valid of the final validation
    success, error,  \* what apply_resolution returned
    order,           \* the order in which the pairs were handed to apply_resolution
    written,         \* files whose write in apply_resolution completed
    result,          \* the dict the operation returned
    all_conflicts,   \* get_merge_conflicts: the (file, number, analysis) entries
    output,          \* get_merge_conflicts: the displays and error lines
    mpc,             \* position inside merge_both
    m_conflict,      \* merge_both: conflict
    m_analysis,      \* merge_both: analysis
    max_retries, merged, is_valid, m_error, retry_count,
    fix_calls,       \* calls of _fix_syntax_error made by this merge_both
    oracle_log,      \* the oracle calls of this merge_both and how each went
    m_ret,           \* what merge_both returned
    a_pc,            \* AIGitAgent.run: position
    messages,        \* AIGitAgent.run: messages
    response,        \* AIGitAgent.run: response.tool_calls
    iteration,       \* AIGitAgent.run: iteration
    tool_call_tracker,
    tci,             \* position in response.tool_calls (1-based)
    executed,        \* the tool calls whose tool was invoked
    chat_history     \* AIGitAgent.chat_history

vars == <<disk, orig_disk, layout, readable, index, git_ok, git_unmerged,
          llm_loads, pc, strategy, strat, conflicted_files, fi, conflicts,
          analyses, resolutions, all_valid, ci, total_conflicts,
          resolved_count, failed_files, resolved_content, final_valid,
          success, error, order, written, result, all_conflicts, output,
          mpc, m_conflict, m_analysis,
          max_retries, merged, is_valid, m_error, retry_count, fix_calls,
          oracle_log, m_ret, a_pc, messages, response, iteration,
          tool_call_tracker, tci, executed, chat_history>>

envVars == <<orig_disk, layout, readable, git_ok, git_unmerged, llm_loads>>
runVars == <<strategy, strat, conflicted_files, fi, conflicts, analyses,
             resolutions, all_valid, ci, total_conflicts, resolved_count,
             failed_files, result>>
listVars == <<all_conflicts, output>>
agentVars == <<a_pc, messages, response, iteration, tool_call_tracker, tci,
               executed, chat_history>>
applyVars == <<resolved_content, final_valid, success, error, order, written>>
mergeVars == <<mpc, m_conflict, m_analysis, max_retries, merged, is_valid, m_error,
               retry_count, fix_calls, oracle_log, m_ret>>

\* Python's None, for values that are strings
None == "None"
\* a text that was never assigned (every str has at least one line)
NoText == <<>>
\* the bool b, or None, of a local that may be unset
PyBool(b) == IF b THEN "True" ELSE "False"
\* an error message: its fixed text, the message it embeds, a line number
Err(msg, detail, lineno) == [msg |-> msg, detail |-> detail, lineno |-> lineno]
NoError == Err(None, None, 0)

(***************************************************************************)
(* Bounds                                                                  *)
(***************************************************************************)
\* segments (context lines and conflict blocks) of a file handed to the
\* parser and to apply_resolution on their own
MaxSegments == 3
\* segments of a file of a resolve_conflicts run
MaxRunSegments == 2
\* conflicted files of a run
MaxFiles == 2
\* conflict blocks in the working tree of a run
MaxRunBlocks == 3
\* largest max_retries merge_both is called with on its own
MaxRetriesArg == 3
\* segments of a text handed to the parser on its own
MaxParseSegments == 3

Min(a, b) == IF a < b THEN a ELSE b

(***************************************************************************)
(* Lines                                                                   *)
(***************************************************************************)
BeginLine == "<<<<<<< HEAD"
BaseLine  == "||||||| base"
SepLine   == "======="
EndLine   == ">>>>>>> topic"
EightEq   == "========"
\* the markdown fence lines; a string literal cannot hold a backquote, so
\* each backquote is written as an apostrophe
FenceLine == "'''"
FencePy   == "'''python"

\* line.startswith('<<<<<<<')
StartsBegin(line) == line = BeginLine
\* line.startswith('=======')
StartsSep(line) == line \in {SepLine, EightEq}
\* line.startswith('|||||||')
StartsBase(line) == line = BaseLine
\* line.startswith('>>>>>>>')
StartsEnd(line) == line = EndLine
\* line.strip() == ''
IsBlank(line) == line \in {"", " "}
\* line.lstrip()
LStripLine(line) == IF line = "  pass" THEN "pass" ELSE line
\* line.rstrip(): no line of the alphabet that is not blank ends in whitespace
RStripLine(line) == line

\* lines[start].replace('<<<<<<< ', '').strip()
BeginLabel(line) == IF line = BeginLine THEN "HEAD" ELSE line
\* lines[i].replace('>>>>>>> ', '').strip()
EndLabel(line) == IF line = EndLine THEN "topic" ELSE line

(***************************************************************************)
(* Strings as line sequences                                               *)
(***************************************************************************)
\* the elements of a list
Range(seq) == {seq[k] : k \in 1..Len(seq)}

\* '\n'.join(list)
Join(list) == IF list = <<>> THEN <<"">> ELSE list

\* s.split('\n') of a string held as its lines
Split(text) == text

\* seq[a:b] of Python, 0-based, clamped
Slice(seq, a, b) == SubSeq(seq, a + 1, Min(b, Len(seq)))

RECURSIVE DropBlankHead(_)
DropBlankHead(text) ==
    IF text = <<>> THEN <<>>
    ELSE IF IsBlank(Head(text)) THEN DropBlankHead(Tail(text))
    ELSE text

RECURSIVE DropBlankTail(_)
DropBlankTail(text) ==
    IF text = <<>> THEN <<>>
    ELSE IF IsBlank(text[Len(text)])
         THEN DropBlankTail(SubSeq(text, 1, Len(text) - 1))
    ELSE text

\* s.strip()
Strip(text) ==
    LET t == DropBlankTail(DropBlankHead(text)) IN
    IF t = <<>> THEN <<"">>
    ELSE LET h == [t EXCEPT ![1] = LStripLine(t[1])]
         IN  [h EXCEPT ![Len(h)] = RStripLine(h[Len(h)])]

\* os.path.splitext(file_path)[1].lower()
Ext(path) ==
    IF path \in {"a.py", "c.py"} THEN ".py" ELSE ".txt"

(***************************************************************************)
(* ConflictParser                                                          *)
(***************************************************************************)
\* the three scanning loops of _parse_single_conflict: the first index >= i
\* that is past the end or whose line stops the loop
\* a faulty variant: the current side only ends at the separator
RECURSIVE ScanCurrentToSeparator(_, _)
ScanCurrentToSeparator(lines, i) ==
    IF i < Len(lines) /\ ~StartsSep(lines[i + 1])
    THEN ScanCurrentToSeparator(lines, i + 1) ELSE i

RECURSIVE ScanCurrent(_, _)
ScanCurrent(lines, i) ==
    IF i < Len(lines) /\ ~StartsSep(lines[i + 1]) /\ ~StartsBase(lines[i + 1])
    THEN ScanCurrent(lines, i + 1) ELSE i

RECURSIVE ScanBase(_, _)
ScanBase(lines, i) ==
    IF i < Len(lines) /\ ~StartsSep(lines[i + 1])
    THEN ScanBase(lines, i + 1) ELSE i

RECURSIVE ScanIncoming(_, _)
ScanIncoming(lines, i) ==
    IF i < Len(lines) /\ ~StartsEnd(lines[i + 1])
    THEN ScanIncoming(lines, i + 1) ELSE i

parse_single_conflict(lines, start, path) ==
    LET i1 == ScanCurrent(lines, start + 1)
        hasBase == i1 < Len(lines) /\ StartsBase(lines[i1 + 1])
        i2 == IF hasBase THEN ScanBase(lines, i1 + 1) ELSE i1
        i3 == IF i2 < Len(lines) /\ StartsSep(lines[i2 + 1]) THEN i2 + 1 ELSE i2
        i4 == ScanIncoming(lines, i3)
    IN  [file_path        |-> path,
         start_line       |-> start,
         end_line         |-> i4,
         current_branch   |-> BeginLabel(lines[start + 1]),
         incoming_branch  |-> IF i4 < Len(lines) /\ StartsEnd(lines[i4 + 1])
                              THEN EndLabel(lines[i4 + 1]) ELSE "MERGE_HEAD",
         current_content  |-> Slice(lines, start + 1, i1),
         incoming_content |-> Slice(lines, i3, i4),
         base_content     |-> IF hasBase THEN Slice(lines, i1 + 1, i2) ELSE <<>>]

\* a faulty variant: after a block the scan skips the line that follows the
\* end marker
RECURSIVE ParseFromSkippingALine(_, _, _, _)
ParseFromSkippingALine(lines, i, path, found) ==
    IF i >= Len(lines) THEN found
    ELSE IF StartsBegin(lines[i + 1])
         THEN LET conflict == parse_single_conflict(lines, i, path)
              IN  ParseFromSkippingALine(lines, conflict.end_line + 2, path,
                                         Append(found, conflict))
         ELSE ParseFromSkippingALine(lines, i + 1, path, found)

\* the while loop of _parse_content from line i on
RECURSIVE ParseFrom(_, _, _, _)
ParseFrom(lines, i, path, found) ==
    IF i >= Len(lines) THEN found
    ELSE IF StartsBegin(lines[i + 1])
         THEN LET conflict == parse_single_conflict(lines, i, path)
              IN  ParseFrom(lines, conflict.end_line + 1, path,
                            Append(found, conflict))
         ELSE ParseFrom(lines, i + 1, path, found)

parse_content(content, path) == ParseFrom(Split(content), 0, path, <<>>)

\* the str a text-mode open(...).read() returns: universal newlines turn
\* every "\r\n" of the file into "\n"
ReadText(image) == image.lines

\* what open(file, 'w', newline='').write(text) leaves on disk
WrittenImage(text) == [lines |-> text, crlf |-> FALSE]

\* a faulty variant: a file that cannot be read parses to no conflict
parse_file_swallows_read_error(path, image, canRead) ==
    [raised |-> FALSE, error |-> NoError,
     conflicts |-> IF canRead THEN parse_content(ReadText(image), path)
                   ELSE <<>>]

\* parse_file: what it returns, or the ValueError it raises when the file
\* cannot be opened and read
parse_file(path, image, canRead) ==
    IF canRead
    THEN [raised |-> FALSE, error |-> NoError,
          conflicts |-> parse_content(ReadText(image), path)]
    ELSE [raised |-> TRUE,
          error |-> Err("Failed to read file {file_path}: {e}", "open", 0),
          conflicts |-> <<>>]

current_text(conflict)  == Join(conflict.current_content)
incoming_text(conflict) == Join(conflict.incoming_content)
base_text(conflict)     == Join(conflict.base_content)

(***************************************************************************)
(* SyntaxValidator                                                         *)
(***************************************************************************)
\* lines on which compile(code, '<string>', 'exec') raises SyntaxError
PySyntaxError(line) ==
    line \in {"def (", "  pass", BeginLine, BaseLine, SepLine, EndLine,
              EightEq, FenceLine, FencePy}

RECURSIVE FirstBadLine(_, _)
FirstBadLine(code, n) ==
    IF n > Len(code) THEN 0
    ELSE IF PySyntaxError(code[n]) THEN n
    ELSE FirstBadLine(code, n + 1)

validate_python(code) ==
    LET lineno == FirstBadLine(code, 1) IN
    IF lineno = 0 THEN [ok |-> TRUE, error |-> NoError]
    ELSE [ok |-> FALSE, error |-> Err("Line {lineno}: {msg}", "invalid syntax", lineno)]

validate(path, code) ==
    IF Ext(path) = ".py" THEN validate_python(code)
    ELSE IF Strip(code) = <<"">>
         THEN [ok |-> FALSE, error |-> Err("Resolved content is empty", None, 0)]
    ELSE [ok |-> TRUE, error |-> NoError]

(***************************************************************************)
(* Files of the working tree.  A file's initial text is built from         *)
(* segments: a context line, or a conflict block with its sides.           *)
(***************************************************************************)
FileName(n) == <<"a.py", "b.txt", "c.py", "d.txt">>[n]

Context(line) ==
    [kind |-> "context", current |-> <<line>>, base |-> <<>>,
     incoming |-> <<>>, diff3 |-> FALSE]
Block(cur, inc) ==
    [kind |-> "conflict", current |-> cur, base |-> <<>>,
     incoming |-> inc, diff3 |-> FALSE]
Diff3Block(cur, bas, inc) ==
    [kind |-> "conflict", current |-> cur, base |-> bas,
     incoming |-> inc, diff3 |-> TRUE]

\* a block whose end marker is missing
Unterminated(cur, inc) ==
    [kind |-> "unterminated", current |-> cur, base |-> <<>>,
     incoming |-> inc, diff3 |-> FALSE]

Segments ==
    {Context("x = 9"), Context(""), Context("def ("),
     Block(<<"x = 1">>, <<"x = 2">>),
     Block(<<>>, <<"x = 2">>),
     Block(<<"x = 1", "y = 1">>, <<>>),
     Block(<<EightEq>>, <<"x = 2">>),
     Diff3Block(<<"x = 1">>, <<"x = 0">>, <<"x = 2">>)}

\* the segments of the texts the parser is given on its own
ParseSegments ==
    Segments \cup {Diff3Block(<<"x = 1">>, <<>>, <<"x = 2">>),
                   Unterminated(<<"x = 1">>, <<"x = 2">>)}

RunSegments ==
    {Block(<<"def (">>, <<"x = 2">>), Block(<<>>, <<"x = 2">>)}

\* a file has LF or CRLF line ends, and can be opened or not
FileStates ==
    {[crlf |-> FALSE, readable |-> TRUE], [crlf |-> TRUE, readable |-> TRUE],
     [crlf |-> FALSE, readable |-> FALSE]}

LayoutsOver(S, n) == UNION {[1..k -> S] : k \in 0..n}

\* the lines git wrote for a segment
Render(seg) ==
    IF seg.kind = "context" THEN seg.current
    ELSE <<BeginLine>> \o seg.current
         \o (IF seg.diff3 THEN <<BaseLine>> \o seg.base ELSE <<>>)
         \o <<SepLine>> \o seg.incoming
         \o (IF seg.kind = "unterminated" THEN <<>> ELSE <<EndLine>>)

RECURSIVE RenderAll(_)
RenderAll(segs) ==
    IF segs = <<>> THEN <<>> ELSE Render(Head(segs)) \o RenderAll(Tail(segs))

\* the text of a file with this layout (the empty file for no segment)
FileText(segs) == Join(RenderAll(segs))

(***************************************************************************)
(* ConflictResolver                                                        *)
(***************************************************************************)
\* a faulty variant: the side kept is reported valid only if it validates
resolve_validates_side(conflict, strategy_member) ==
    LET text == IF strategy_member = "current" THEN current_text(conflict)
                ELSE incoming_text(conflict)
    IN  <<text, validate(conflict.file_path, text).ok>>

\* resolve() for ResolutionStrategy.CURRENT and INCOMING; BOTH delegates to
\* merge_both, which is modelled step by step below
resolve(conflict, strategy_member) ==
    IF strategy_member = "current"
    THEN <<current_text(conflict), TRUE>>
    ELSE <<incoming_text(conflict), TRUE>>

\* the loop over zip(conflicts, resolutions) and the trailing copy
RECURSIVE Splice(_, _, _, _, _, _)
Splice(lines, confs, ress, k, last_line, resolved_lines) ==
    IF k > Min(Len(confs), Len(ress))
    THEN resolved_lines \o Slice(lines, last_line, Len(lines))
    ELSE Splice(lines, confs, ress, k + 1, confs[k].end_line + 1,
                resolved_lines
                \o Slice(lines, last_line, confs[k].start_line)
                \o Split(ress[k]))

\* resolved_content of apply_resolution
Reconstruct(content, confs, ress) ==
    Join(Splice(Split(content), confs, ress, 1, 0, <<>>))

\* a faulty variant: a conflict that came back with is_valid = False fails
\* the final validation whatever the reassembled content is
validation_needs_all_valid(path, content) ==
    IF all_valid THEN validate(path, content)
    ELSE [ok |-> FALSE, error |-> Err("Syntax error", "is_valid", 0)]

\* the final validation before writing: validate(file_path, resolved_content)
final_validation(path, content) == validate(path, content)

\* a faulty variant: the content is written before it is validated
write_before_validation(image, content, v) ==
    [success |-> FALSE,
     error |-> Err("Final validation failed: {error}", v.error.msg, v.error.lineno),
     resolved_content |-> content, final_valid |-> PyBool(FALSE),
     image |-> WrittenImage(content), wrote |-> TRUE]

\* "if not is_valid: return False, ...": nothing is written
FinalValidationFailed(image, content, v) ==
    [success |-> FALSE,
     error |-> Err("Final validation failed: {error}", v.error.msg, v.error.lineno),
     resolved_content |-> content, final_valid |-> PyBool(FALSE),
     image |-> image, wrote |-> FALSE]

\* apply_resolution: what it returns and what it leaves on disk.  canRead:
\* whether open(file_path, 'r') succeeds; wio: how the write goes ("ok",
\* "open_fails": open(file_path, 'w') raises, "write_fails": f.write raises
\* after the file was truncated).
apply_resolution(file_path, image, confs, ress, canRead, wio) ==
    IF ~canRead
    THEN [success |-> FALSE,
          error |-> Err("Failed to apply resolution: {e}", "open", 0),
          resolved_content |-> NoText, final_valid |-> None,
          image |-> image, wrote |-> FALSE]
    ELSE LET content == Reconstruct(ReadText(image), confs, ress)
             v == final_validation(file_path, content)
         IN  IF ~v.ok
             THEN FinalValidationFailed(image, content, v)
             ELSE IF wio = "ok"
             THEN [success |-> TRUE, error |-> NoError,
                   resolved_content |-> content, final_valid |-> PyBool(TRUE),
                   image |-> WrittenImage(content), wrote |-> TRUE]
             ELSE [success |-> FALSE,
                   error |-> Err("Failed to apply resolution: {e}", wio, 0),
                   resolved_content |-> content, final_valid |-> PyBool(TRUE),
                   image |-> IF wio = "write_fails"
                             THEN WrittenImage(<<"">>) ELSE image,
                   wrote |-> FALSE]

WriteOutcomes == {"ok", "open_fails", "write_fails"}

file_path == conflicted_files[fi]

\* the orders in which n pairs can be handed over: the permutations of 1..n
Orders(n) ==
    {p \in [1..n -> 1..n] : \A i, j \in 1..n : p[i] = p[j] => i = j}

(***************************************************************************)
(* The text-generation oracle: llm.invoke(prompt) raises, or returns a     *)
(* response whose content is a string ("" stands for a falsy content).     *)
(***************************************************************************)
Raised == [raised |-> TRUE, content |-> <<"">>]
Response(text) == [raised |-> FALSE, content |-> text]

OracleContents ==
    {<<"">>, <<" ">>, <<"x = 3">>, <<"def (">>, <<"  pass">>,
     <<FencePy, "x = 3", FenceLine>>, <<FenceLine, "", FenceLine>>,
     <<"x = 3", EndLine>>}

OracleOutcomes == {Raised} \cup {Response(t) : t \in OracleContents}

\* the outcomes of a call inside a whole run of resolve_conflicts: the call
\* raises, answers text that compiles, or answers text that does not
RunOracleOutcomes == {Raised, Response(<<"x = 3">>), Response(<<"def (">>)}

\* self.llm.invoke(prompt) of merge_both and _fix_syntax_error
Invoke == IF pc = "merge_both" THEN OracleOutcomes ELSE RunOracleOutcomes

\* response.content is truthy
Truthy(content) == content # <<"">>

(***************************************************************************)
(* IntelligentMerger                                                       *)
(***************************************************************************)
\* re.sub(r'^<pattern>\n', '', code, flags=re.MULTILINE): every line that
\* matches and is followed by a newline (every matching line but the last)
\* is removed
RemoveLines(code, matching) ==
    SelectSeq(SubSeq(code, 1, Len(code) - 1), LAMBDA line : line \notin matching)
    \o <<code[Len(code)]>>

\* a whole line of three backquotes followed by word characters only
IsFence(line) == line \in {FenceLine, FencePy}

\* re.sub(r'\n```$', '', code): $ matches at the end of the string and
\* before a newline that ends the string
DropClosingFence(code) ==
    LET n == Len(code) IN
    IF n >= 2 /\ code[n] = FenceLine THEN SubSeq(code, 1, n - 1)
    ELSE IF n >= 3 /\ code[n] = "" /\ code[n - 1] = FenceLine
         THEN SubSeq(code, 1, n - 2) \o <<"">>
    ELSE code

IsSeparator(line) == line = SepLine

clean_output(code) ==
    LET c1 == RemoveLines(code, {line \in Range(code) : IsFence(line)})
        c2 == DropClosingFence(c1)
        c3 == RemoveLines(c2, {line \in Range(c2) : StartsBegin(line)})
        c4 == RemoveLines(c3, {line \in Range(c3) : IsSeparator(line)})
        c5 == RemoveLines(c4, {line \in Range(c4) : StartsEnd(line)})
    IN  Strip(c5)

\* _fix_syntax_error, given how its oracle call went
fix_syntax_error(broken_code, resp) ==
    IF resp.raised THEN broken_code
    ELSE clean_output(IF Truthy(resp.content) THEN Strip(resp.content)
                      ELSE broken_code)

\* a faulty variant: the retry loop runs once more than max_retries allows
retry_loop_off_by_one(valid, count, retries) == ~valid /\ count <= retries

\* a faulty variant: the loop goes on for as long as the candidate is invalid
retry_while_invalid(valid, count, retries) == ~valid

\* the condition of the retry loop of merge_both
retry_loop_condition(valid, count, retries) == ~valid /\ count < retries

\* how an oracle call of merge_both went: it raised, it returned nothing,
\* or the candidate it led to passes or fails validate()
Outcome(resp, candidate, path) ==
    IF resp.raised THEN "raised"
    ELSE IF Strip(resp.content) = <<"">> THEN "empty"
    ELSE IF validate(path, candidate).ok THEN "valid" ELSE "invalid"

\* merge_both, first part: the merge prompt, the cleanup, the first validation
MergeInvoke ==
    /\ mpc = "invoke"
    /\ \E resp \in Invoke :
          LET stripped == Strip(resp.content)
              candidate == clean_output(stripped)
              v == validate(m_conflict.file_path, candidate)
          IN  /\ oracle_log' = Append(oracle_log,
                     [stage |-> "merge",
                      outcome |-> Outcome(resp, candidate, m_conflict.file_path)])
              /\ IF resp.raised \/ ~Truthy(resp.content) \/ stripped = <<"">>
                 THEN /\ m_ret' = <<incoming_text(m_conflict), FALSE>>
                      /\ mpc' = "returned"
                      /\ UNCHANGED <<merged, is_valid, m_error>>
                 ELSE /\ merged' = candidate
                      /\ is_valid' = v.ok
                      /\ m_error' = v.error
                      /\ mpc' = "loop"
                      /\ UNCHANGED m_ret
    /\ retry_count' = 0
    /\ UNCHANGED <<agentVars, listVars, disk, index, envVars, pc, runVars, applyVars,
                   m_conflict, m_analysis, max_retries, fix_calls>>

\* one pass of the retry loop
FixAttempt ==
    /\ mpc = "loop"
    /\ retry_loop_condition(is_valid, retry_count, max_retries)
    /\ retry_count' = retry_count + 1
    /\ fix_calls' = fix_calls + 1
    /\ \E resp \in Invoke :
          LET fixed == fix_syntax_error(merged, resp)
              v == validate(m_conflict.file_path, fixed)
          IN  /\ merged' = fixed
              /\ is_valid' = v.ok
              /\ m_error' = v.error
              /\ oracle_log' = Append(oracle_log,
                     [stage |-> "fix",
                      outcome |-> Outcome(resp, fixed, m_conflict.file_path)])
    /\ UNCHANGED <<agentVars, listVars, disk, index, envVars, pc, runVars, applyVars,
                   mpc, m_conflict, m_analysis, max_retries, m_ret>>

\* a faulty variant: the candidate is returned as valid whatever validate()
\* said
merge_result_always_valid(text, valid) == <<Strip(text), TRUE>>

\* what merge_both returns after the retry loop
merge_result(text, valid) == <<Strip(text), valid>>

\* the loop is left and merge_both returns
MergeReturn ==
    /\ mpc = "loop"
    /\ ~retry_loop_condition(is_valid, retry_count, max_retries)
    /\ m_ret' = merge_result(merged, is_valid)
    /\ mpc' = "returned"
    /\ UNCHANGED <<agentVars, listVars, disk, index, envVars, pc, runVars, applyVars,
                   m_conflict, m_analysis, max_retries, merged, is_valid, m_error,
                   retry_count, fix_calls, oracle_log>>

(***************************************************************************)
(* Initial values of the locals of an operation that has not run           *)
(***************************************************************************)
NoConflict ==
    [file_path |-> None, start_line |-> 0, end_line |-> 0,
     current_branch |-> None, incoming_branch |-> None,
     current_content |-> <<>>, incoming_content |-> <<>>,
     base_content |-> <<>>]

MergeIdle ==
    /\ mpc = "idle" /\ m_conflict = NoConflict /\ max_retries = 0
    /\ m_analysis = None
    /\ merged = NoText /\ is_valid = FALSE /\ m_error = NoError
    /\ retry_count = 0 /\ fix_calls = 0 /\ oracle_log = <<>>
    /\ m_ret = <<>>

ApplyIdle ==
    /\ resolved_content = NoText /\ final_valid = None
    /\ success = FALSE /\ error = NoError /\ order = <<>> /\ written = {}

\* the dict an operation returns; "resolved" and "total" are -1 when the
\* dict has no such key
Result(status, message, resolved, total) ==
    [status |-> status, message |-> message, resolved |-> resolved, total |-> total]
NoResult == Result(None, None, -1, -1)

ListIdle == all_conflicts = <<>> /\ output = <<>>

AgentIdle ==
    /\ a_pc = "idle" /\ messages = <<>> /\ response = <<>>
    /\ iteration = 0 /\ tool_call_tracker = {} /\ tci = 1
    /\ executed = <<>> /\ chat_history = <<>>

RunIdle ==
    /\ strat = None /\ fi = 1
    /\ conflicts = <<>> /\ analyses = <<>> /\ resolutions = <<>>
    /\ all_valid = TRUE /\ ci = 1
    /\ total_conflicts = 0 /\ resolved_count = 0 /\ failed_files = <<>>
    /\ result = NoResult

(***************************************************************************)
(* The parser, resolve() and apply_resolution called on their own on one   *)
(* file: the text is parsed, every conflict is resolved with keep-current  *)
(* or keep-incoming, and the pairs are handed to apply_resolution in any   *)
(* order.                                                                  *)
(***************************************************************************)
InitApply ==
    /\ \E f \in {FileName(1), FileName(2)} :
       \E segs \in LayoutsOver(Segments, MaxSegments) :
       \E e \in FileStates :
          /\ layout = (f :> segs)
          /\ disk = (f :> [lines |-> FileText(segs), crlf |-> e.crlf])
          /\ readable = (f :> e.readable)
          /\ conflicted_files = <<f>>
          /\ git_unmerged = <<f>>
    /\ orig_disk = disk
    /\ index = {} /\ git_ok = TRUE /\ llm_loads = TRUE
    /\ pc = "parse_content" /\ strategy = None
    /\ RunIdle /\ ApplyIdle /\ MergeIdle /\ ListIdle /\ AgentIdle

ParseOnly ==
    /\ pc = "parse_content"
    /\ conflicts' = parse_content(ReadText(disk[file_path]), file_path)
    /\ pc' = "resolve_each"
    /\ UNCHANGED <<agentVars, listVars, disk, index, envVars, strategy, strat, conflicted_files, fi,
                   analyses, resolutions, all_valid, ci, total_conflicts,
                   resolved_count, failed_files, result, applyVars, mergeVars>>

ResolveOnly ==
    /\ pc = "resolve_each"
    /\ \E st \in {"current", "incoming"} :
          /\ strat' = st
          /\ resolutions' = [k \in 1..Len(conflicts) |-> resolve(conflicts[k], st)[1]]
          /\ all_valid' = \A k \in 1..Len(conflicts) : resolve(conflicts[k], st)[2]
    /\ pc' = "apply_resolution"
    /\ UNCHANGED <<agentVars, listVars, disk, index, envVars, strategy, conflicted_files, fi,
                   conflicts, analyses, ci, total_conflicts,
                   resolved_count, failed_files, result, applyVars, mergeVars>>

\* apply_resolution on file_path, the pairs in the order p, the write going wio
Apply(p, wio) ==
    LET r == apply_resolution(file_path, disk[file_path],
                              [k \in 1..Len(p) |-> conflicts[p[k]]],
                              [k \in 1..Len(p) |-> resolutions[p[k]]],
                              readable[file_path], wio)
    IN  /\ disk' = [disk EXCEPT ![file_path] = r.image]
        /\ resolved_content' = r.resolved_content
        /\ final_valid' = r.final_valid
        /\ success' = r.success
        /\ error' = r.error
        /\ order' = p
        /\ written' = IF r.wrote THEN written \cup {file_path} ELSE written

ApplyOnly ==
    /\ pc = "apply_resolution"
    /\ \E p \in Orders(Len(conflicts)), wio \in WriteOutcomes : Apply(p, wio)
    /\ pc' = "applied"
    /\ UNCHANGED <<agentVars, listVars, index, envVars, runVars, mergeVars>>

NextApply == ParseOnly \/ ResolveOnly \/ ApplyOnly

\* _parse_content called on its own on the text of one readable file
InitParse ==
    /\ \E f \in {FileName(1), FileName(2)} :
       \E segs \in LayoutsOver(ParseSegments, MaxParseSegments) :
       \E crlf \in BOOLEAN :
          /\ layout = (f :> segs)
          /\ disk = (f :> [lines |-> FileText(segs), crlf |-> crlf])
          /\ readable = (f :> TRUE)
          /\ conflicted_files = <<f>>
          /\ git_unmerged = <<f>>
    /\ orig_disk = disk
    /\ index = {} /\ git_ok = TRUE /\ llm_loads = TRUE
    /\ pc = "parse_content" /\ strategy = None
    /\ RunIdle /\ ApplyIdle /\ MergeIdle /\ ListIdle /\ AgentIdle

SpecParse == InitParse /\ [][ParseOnly]_vars

SpecApply == InitApply /\ [][NextApply]_vars

\* a faulty variant: the pairs are handed over last conflict first
LastFirst(n) == [k \in 1..n |-> n + 1 - k]

InOrder(n) == [k \in 1..n |-> k]

(***************************************************************************)
(* merge_both called on its own, on one parsed conflict, with any          *)
(* max_retries.                                                            *)
(***************************************************************************)
ConflictSegments == {seg \in Segments : seg.kind = "conflict"}

InitMerge ==
    /\ \E f \in {FileName(1), FileName(2)}, seg \in ConflictSegments :
          /\ layout = (f :> <<seg>>)
          /\ disk = (f :> [lines |-> FileText(<<seg>>), crlf |-> FALSE])
          /\ readable = (f :> TRUE)
          /\ conflicted_files = <<f>>
          /\ git_unmerged = <<f>>
          /\ conflicts = parse_content(FileText(<<seg>>), f)
    /\ orig_disk = disk
    /\ index = {} /\ git_ok = TRUE /\ llm_loads = TRUE
    /\ pc = "merge_both" /\ strategy = None
    /\ strat = "both" /\ fi = 1
    /\ analyses = <<>> /\ resolutions = <<>> /\ all_valid = TRUE /\ ci = 1
    /\ total_conflicts = 0 /\ resolved_count = 0 /\ failed_files = <<>>
    /\ result = NoResult
    /\ ApplyIdle /\ ListIdle /\ AgentIdle
    /\ mpc = "invoke" /\ m_conflict = conflicts[1]
    /\ m_analysis = "explanation"
    /\ max_retries \in 0..MaxRetriesArg
    /\ merged = NoText /\ is_valid = FALSE /\ m_error = NoError
    /\ retry_count = 0 /\ fix_calls = 0 /\ oracle_log = <<>> /\ m_ret = <<>>

NextMerge == MergeInvoke \/ FixAttempt \/ MergeReturn

SpecMerge == InitMerge /\ [][NextMerge]_vars

(***************************************************************************)
(* resolve_conflicts(strategy)                                             *)
(***************************************************************************)
StrategyArgs == {"current", "Incoming", "both", "interactive", "theirs"}

\* strategy.lower()
Lower(s) ==
    CASE s = "BOTH" -> "both"
      [] s = "Incoming" -> "incoming"
      [] OTHER -> s

\* a faulty variant: an unrecognized name falls back to keep-current
unknown_means_current(value) ==
    IF value \in {"interactive", "current", "incoming", "both"} THEN value
    ELSE "current"

\* ResolutionStrategy(value): the member, or None where it raises ValueError
ResolutionStrategy(value) ==
    IF value \in {"interactive", "current", "incoming", "both"} THEN value
    ELSE None

\* max_retries of merge_both, which resolve() leaves at its default
DefaultMaxRetries == 2

AllFiles == [n \in 1..MaxFiles |-> FileName(n)]

\* what git can list as unmerged: any run of the files, in path order
Listings == {SubSeq(AllFiles, i, j) : i \in 1..MaxFiles + 1, j \in 0..MaxFiles}


\* the layouts of the files of a run: blocks only, or one line and no block
\* (a file git lists as unmerged whose markers are already gone), or one
\* block whose current side holds a begin marker line
RunLayouts ==
    LayoutsOver(RunSegments, MaxRunSegments)
    \cup {<<Context("def (")>>, <<Block(<<BeginLine>>, <<"x = 2">>)>>}

\* the responses of the oracle to the prompts of a run
RECURSIVE BlockCount(_, _)
BlockCount(lay, files) ==
    IF files = {} THEN 0
    ELSE LET f == CHOOSE x \in files : TRUE
         IN  Cardinality({k \in 1..Len(lay[f]) : lay[f][k].kind = "conflict"})
             + BlockCount(lay, files \ {f})

Init ==
    /\ git_unmerged \in Listings
    /\ layout \in [Range(git_unmerged) -> RunLayouts]
    /\ BlockCount(layout, Range(git_unmerged)) <= MaxRunBlocks
    /\ disk = [f \in Range(git_unmerged) |->
                  [lines |-> FileText(layout[f]), crlf |-> FALSE]]
    /\ orig_disk = disk
    /\ readable = [f \in Range(git_unmerged) |-> TRUE]
    /\ strategy \in StrategyArgs
    /\ index = {} /\ git_ok = TRUE /\ llm_loads = TRUE
    /\ pc = "start" /\ conflicted_files = <<>>
    /\ RunIdle /\ ApplyIdle /\ MergeIdle /\ ListIdle /\ AgentIdle

\* get_conflicted_files(), given the exit status of git
get_conflicted_files(ok) == IF ok THEN git_unmerged ELSE <<>>

\* resolve_conflicts up to its loop over the files: the strategy is
\* validated, the conflicted files are listed, the resolver is constructed
Begin ==
    /\ pc = "start"
    /\ strat' = ResolutionStrategy(Lower(strategy))
    /\ IF strat' = None
       THEN /\ result' = Result("error", "Invalid strategy; valid options", -1, -1)
            /\ pc' = "done"
            /\ UNCHANGED <<git_ok, llm_loads, conflicted_files>>
       ELSE IF strat' = "interactive"
       THEN /\ result' = Result("error", "Use get_merge_conflicts() first", -1, -1)
            /\ pc' = "done"
            /\ UNCHANGED <<git_ok, llm_loads, conflicted_files>>
       ELSE \E ok \in BOOLEAN, loads \in BOOLEAN :
            /\ git_ok' = ok
            /\ conflicted_files' = get_conflicted_files(ok)
            /\ IF conflicted_files' = <<>>
               THEN /\ result' = Result("success", "No conflicts to resolve", -1, -1)
                    /\ pc' = "done"
                    /\ UNCHANGED llm_loads
               ELSE /\ llm_loads' = loads
                    /\ IF loads
                       THEN pc' = "file" /\ UNCHANGED result
                       ELSE /\ result' = Result("error", "Resolution failed", -1, -1)
                            /\ pc' = "done"
    /\ UNCHANGED <<agentVars, listVars, disk, index, orig_disk, layout, readable, git_unmerged,
                   strategy, fi, conflicts, analyses, resolutions, all_valid,
                   ci, total_conflicts, resolved_count, failed_files,
                   applyVars, mergeVars>>

\* where the loop body goes after the analyses of n conflicts
AfterAnalyses(n) == IF n = 0 THEN "apply" ELSE "resolve"

\* the head of the loop body: parse_file, which raises when the file
\* cannot be read, and the choice of the analyses.  The locals the previous
\* pass left behind are dead here and are cleared.
ParseFile ==
    /\ pc = "file" /\ fi <= Len(conflicted_files)
    /\ \E r \in BOOLEAN :
          /\ readable' = [readable EXCEPT ![file_path] = r]
          /\ IF parse_file(file_path, disk[file_path], r).raised
             THEN /\ failed_files' = Append(failed_files,
                        <<file_path, parse_file(file_path, disk[file_path], r).error>>)
                  /\ fi' = fi + 1
                  /\ pc' = "file"
                  /\ conflicts' = <<>> /\ analyses' = <<>>
                  /\ resolutions' = <<>> /\ all_valid' = TRUE /\ ci' = 1
                  /\ UNCHANGED total_conflicts
             ELSE /\ conflicts' = parse_file(file_path, disk[file_path], r).conflicts
                  /\ total_conflicts' = total_conflicts + Len(conflicts')
                  /\ analyses' = IF strat = "both" THEN <<>>
                                 ELSE [k \in 1..Len(conflicts') |-> ""]
                  /\ resolutions' = <<>>
                  /\ all_valid' = TRUE
                  /\ ci' = 1
                  /\ pc' = IF strat = "both" /\ Len(conflicts') > 0
                           THEN "analyze" ELSE AfterAnalyses(Len(conflicts'))
                  /\ UNCHANGED <<failed_files, fi>>
    /\ resolved_content' = NoText /\ final_valid' = None
    /\ success' = FALSE /\ error' = NoError /\ order' = <<>>
    /\ UNCHANGED <<agentVars, listVars, disk, index, orig_disk, layout, git_ok, git_unmerged,
                   llm_loads, strategy, strat, conflicted_files,
                   resolved_count, result, written, mergeVars>>

\* analyze_conflict, given how its oracle call went
analyze_conflict(resp) ==
    IF resp.raised THEN "Analysis failed: {e}"
    ELSE IF Truthy(resp.content) THEN "explanation"
    ELSE "Unable to analyze."

AnalysisOutcomes == {Raised, Response(<<"explanation">>)}

\* one pass of the loop that collects the analyses
Analyze ==
    /\ pc = "analyze"
    /\ \E resp \in AnalysisOutcomes :
          analyses' = Append(analyses, analyze_conflict(resp))
    /\ ci' = IF ci = Len(conflicts) THEN 1 ELSE ci + 1
    /\ pc' = IF ci = Len(conflicts) THEN "resolve" ELSE "analyze"
    /\ UNCHANGED <<agentVars, listVars, disk, index, envVars, strategy, strat, conflicted_files,
                   fi, conflicts, resolutions, all_valid, total_conflicts,
                   resolved_count, failed_files, result, applyVars, mergeVars>>

\* the loop over zip(conflicts, analyses) for keep-current and keep-incoming
ResolveSides ==
    /\ pc = "resolve" /\ strat \in {"current", "incoming"}
    /\ resolutions' = [k \in 1..Min(Len(conflicts), Len(analyses)) |->
                          resolve(conflicts[k], strat)[1]]
    /\ all_valid' = \A k \in 1..Min(Len(conflicts), Len(analyses)) :
                          resolve(conflicts[k], strat)[2]
    /\ ci' = Len(conflicts) + 1
    /\ pc' = "apply"
    /\ UNCHANGED <<agentVars, listVars, disk, index, envVars, strategy, strat, conflicted_files,
                   fi, conflicts, analyses, total_conflicts, resolved_count,
                   failed_files, result, applyVars, mergeVars>>

\* a faulty variant: every conflict is paired with the first analysis
first_analysis(anas, i) == anas[1]

\* zip(conflicts, analyses): the analysis paired with conflict i
zipped_analysis(anas, i) == anas[i]

\* resolve() with ResolutionStrategy.BOTH calls merge_both(conflict, analysis)
CallMerge ==
    /\ pc = "resolve" /\ strat = "both" /\ mpc = "idle"
    /\ ci <= Min(Len(conflicts), Len(analyses))
    /\ m_conflict' = conflicts[ci]
    /\ m_analysis' = zipped_analysis(analyses, ci)
    /\ max_retries' = DefaultMaxRetries
    /\ mpc' = "invoke"
    /\ merged' = NoText /\ is_valid' = FALSE /\ m_error' = NoError
    /\ retry_count' = 0 /\ fix_calls' = 0 /\ oracle_log' = <<>>
    /\ m_ret' = <<>>
    /\ UNCHANGED <<agentVars, listVars, disk, index, envVars, pc, runVars, applyVars>>

\* merge_both has returned (its locals are gone): the rest of the loop body
MergeDone ==
    /\ pc = "resolve" /\ mpc = "returned"
    /\ resolutions' = Append(resolutions, m_ret[1])
    /\ all_valid' = (all_valid /\ m_ret[2])
    /\ ci' = ci + 1
    /\ pc' = IF ci = Min(Len(conflicts), Len(analyses)) THEN "apply" ELSE "resolve"
    /\ mpc' = "idle" /\ m_conflict' = NoConflict /\ max_retries' = 0
    /\ m_analysis' = None
    /\ merged' = NoText /\ is_valid' = FALSE /\ m_error' = NoError
    /\ retry_count' = 0 /\ fix_calls' = 0 /\ oracle_log' = <<>>
    /\ m_ret' = <<>>
    /\ UNCHANGED <<agentVars, listVars, disk, index, envVars, strategy, strat, conflicted_files,
                   fi, conflicts, analyses, total_conflicts, resolved_count,
                   failed_files, result, applyVars>>

\* a faulty variant: stage_file is called whatever apply_resolution returned
stage_whatever_was_returned(ok, err) ==
    /\ pc' = "stage"
    /\ UNCHANGED <<failed_files, fi>>

\* a faulty variant: a file whose apply_resolution failed is passed over
\* without being recorded
pass_over_failure(ok, err) ==
    IF ok
    THEN /\ pc' = "stage"
         /\ UNCHANGED <<failed_files, fi>>
    ELSE /\ fi' = fi + 1
         /\ pc' = "file"
         /\ UNCHANGED failed_files

\* "if success:" goes on to stage_file, its else branch records the failure
AfterApply(ok, err) ==
    IF ok
    THEN /\ pc' = "stage"
         /\ UNCHANGED <<failed_files, fi>>
    ELSE /\ failed_files' = Append(failed_files, <<file_path, err>>)
         /\ fi' = fi + 1
         /\ pc' = "file"

\* apply_resolution and what the loop body does with what it returns
ApplyFile ==
    /\ pc = "apply"
    /\ \E wio \in WriteOutcomes : Apply(InOrder(Len(conflicts)), wio)
    /\ AfterApply(success', error')
    /\ UNCHANGED <<agentVars, listVars, index, envVars, strategy, strat, conflicted_files,
                   conflicts, analyses, resolutions, all_valid, ci,
                   total_conflicts, resolved_count, result, mergeVars>>

\* a faulty variant: the count grows by one per file
count_files(count, confs) == count + 1

\* resolved_count += len(conflicts)
AddResolved(count, confs) == count + Len(confs)

\* stage_file: whether git add exits 0
StageFile ==
    /\ pc = "stage"
    /\ \E staged \in BOOLEAN :
          IF staged
          THEN /\ index' = index \cup {file_path}
               /\ resolved_count' = AddResolved(resolved_count, conflicts)
               /\ UNCHANGED failed_files
          ELSE /\ failed_files' = Append(failed_files,
                     <<file_path, Err("Failed to stage", None, 0)>>)
               /\ UNCHANGED <<index, resolved_count>>
    /\ fi' = fi + 1
    /\ pc' = "file"
    /\ UNCHANGED <<agentVars, listVars, disk, envVars, strategy, strat, conflicted_files,
                   conflicts, analyses, resolutions, all_valid, ci,
                   total_conflicts, result, applyVars, mergeVars>>

\* a faulty variant: success as soon as something was resolved
status_by_resolved_count(failed) ==
    IF resolved_count > 0 THEN "success" ELSE "partial"

\* "status": "success" if not failed_files else "partial"
Status(failed) == IF failed = <<>> THEN "success" ELSE "partial"

\* after the loop: the summary
Finish ==
    /\ pc = "file" /\ fi > Len(conflicted_files)
    /\ result' = Result(Status(failed_files), "summary", resolved_count,
                        total_conflicts)
    /\ pc' = "done"
    /\ UNCHANGED <<agentVars, listVars, disk, index, envVars, strategy, strat, conflicted_files,
                   fi, conflicts, analyses, resolutions, all_valid, ci,
                   total_conflicts, resolved_count, failed_files, applyVars,
                   mergeVars>>

Next ==
    \/ Begin \/ ParseFile \/ Analyze \/ ResolveSides
    \/ CallMerge \/ MergeInvoke \/ FixAttempt \/ MergeReturn \/ MergeDone
    \/ ApplyFile \/ StageFile \/ Finish

Spec == Init /\ [][Next]_vars

(***************************************************************************)
(* get_merge_conflicts                                                     *)
(***************************************************************************)
InitList ==
    /\ git_unmerged \in Listings
    /\ layout \in [Range(git_unmerged) -> RunLayouts]
    /\ BlockCount(layout, Range(git_unmerged)) <= MaxRunBlocks
    /\ disk = [f \in Range(git_unmerged) |->
                  [lines |-> FileText(layout[f]), crlf |-> FALSE]]
    /\ orig_disk = disk
    /\ readable = [f \in Range(git_unmerged) |-> TRUE]
    /\ strategy = None
    /\ index = {} /\ git_ok = TRUE /\ llm_loads = TRUE
    /\ pc = "list_start" /\ conflicted_files = <<>>
    /\ RunIdle /\ ApplyIdle /\ MergeIdle /\ ListIdle /\ AgentIdle

\* has_conflicts(), given the exit status of git status --porcelain: the
\* unmerged paths are the lines that start with a conflict marker, and a git
\* that fails prints nothing
has_conflicts(ok) == ok /\ git_unmerged # <<>>

\* a faulty variant: the file is opened for writing, which truncates it
open_for_writing(path, canRead) ==
    disk' = IF canRead
            THEN [disk EXCEPT ![path] = [lines |-> <<"">>, crlf |-> FALSE]]
            ELSE disk

\* open(file_path, 'r') of parse_file: the file is left as it is
open_for_reading(path, canRead) == disk' = disk

\* get_merge_conflicts up to its loop over the files
ListBegin ==
    /\ pc = "list_start"
    /\ \E status_ok \in BOOLEAN, ok \in BOOLEAN, loads \in BOOLEAN :
          IF ~has_conflicts(status_ok)
          THEN /\ result' = Result("success", "No merge conflicts detected", -1, -1)
               /\ pc' = "done"
               /\ git_ok' = status_ok
               /\ UNCHANGED <<llm_loads, conflicted_files, output>>
          ELSE /\ git_ok' = ok
               /\ conflicted_files' = get_conflicted_files(ok)
               /\ IF conflicted_files' = <<>>
                  THEN /\ result' = Result("success", "No merge conflicts found", -1, -1)
                       /\ pc' = "done"
                       /\ UNCHANGED <<llm_loads, output>>
                  ELSE /\ llm_loads' = loads
                       /\ IF loads
                          THEN /\ pc' = "list_file"
                               /\ output' = <<[kind |-> "header",
                                               files |-> Len(conflicted_files')]>>
                               /\ UNCHANGED result
                          ELSE /\ result' = Result("error", "Failed to analyze conflicts", -1, -1)
                               /\ pc' = "done"
                               /\ UNCHANGED output
    /\ UNCHANGED <<agentVars, disk, index, orig_disk, layout, readable, git_unmerged,
                   strategy, strat, fi, conflicts, analyses, resolutions,
                   all_valid, ci, total_conflicts, resolved_count,
                   failed_files, all_conflicts, applyVars, mergeVars>>

\* the head of the loop body: parse_file; when it raises, the handler of
\* the loop body adds an error line to the output
ListParse ==
    /\ pc = "list_file" /\ fi <= Len(conflicted_files)
    /\ \E r \in BOOLEAN :
          /\ readable' = [readable EXCEPT ![file_path] = r]
          /\ open_for_reading(file_path, r)
          /\ IF parse_file(file_path, disk[file_path], r).raised
             THEN /\ output' = Append(output,
                        [kind |-> "error", file |-> file_path,
                         error |-> parse_file(file_path, disk[file_path], r).error])
                  /\ conflicts' = <<>>
                  /\ fi' = fi + 1
                  /\ pc' = "list_file"
             ELSE /\ conflicts' = parse_file(file_path, disk[file_path], r).conflicts
                  /\ fi' = IF conflicts' = <<>> THEN fi + 1 ELSE fi
                  /\ pc' = IF conflicts' = <<>> THEN "list_file" ELSE "list_conflict"
                  /\ UNCHANGED output
    /\ ci' = 1
    /\ UNCHANGED <<agentVars, index, orig_disk, layout, git_ok, git_unmerged, llm_loads,
                   strategy, strat, conflicted_files, analyses, resolutions,
                   all_valid, total_conflicts, resolved_count, failed_files,
                   result, all_conflicts, applyVars, mergeVars>>

\* one pass of the loop over the conflicts of a file: the conflict is
\* counted, analysed, displayed and recorded
ListConflict ==
    /\ pc = "list_conflict"
    /\ total_conflicts' = total_conflicts + 1
    /\ \E resp \in AnalysisOutcomes :
          /\ output' = Append(output,
                [kind |-> "display", file |-> conflicts[ci].file_path,
                 number |-> ci, total |-> Len(conflicts),
                 analysis |-> analyze_conflict(resp)])
          /\ all_conflicts' = Append(all_conflicts,
                [file |-> file_path, number |-> ci,
                 analysis |-> analyze_conflict(resp)])
    /\ ci' = IF ci = Len(conflicts) THEN 1 ELSE ci + 1
    /\ fi' = IF ci = Len(conflicts) THEN fi + 1 ELSE fi
    /\ pc' = IF ci = Len(conflicts) THEN "list_file" ELSE "list_conflict"
    /\ UNCHANGED <<agentVars, disk, index, envVars, strategy, strat, conflicted_files,
                   conflicts, analyses, resolutions, all_valid,
                   resolved_count, failed_files, result, applyVars, mergeVars>>

\* after the loop: the resolution options are added and the dict is returned
ListFinish ==
    /\ pc = "list_file" /\ fi > Len(conflicted_files)
    /\ output' = Append(output, [kind |-> "options"])
    /\ result' = Result("success", "MERGE CONFLICTS DETECTED", -1, total_conflicts)
    /\ pc' = "done"
    /\ UNCHANGED <<agentVars, disk, index, envVars, strategy, strat, conflicted_files,
                   fi, conflicts, analyses, resolutions, all_valid, ci,
                   total_conflicts, resolved_count, failed_files,
                   all_conflicts, applyVars, mergeVars>>

NextList == ListBegin \/ ListParse \/ ListConflict \/ ListFinish

SpecList == InitList /\ [][NextList]_vars

(***************************************************************************)
(* AIGitAgent.run (src/agent.py): the loop that asks the chat model and    *)
(* executes the tool calls of its response.  A tool call is a name and the *)
(* id the chat model gave it; ids are distinct.                            *)
(***************************************************************************)
max_iterations == 8

Doc == "generate_version_documentation"

\* the names of self.tools_dict
ToolNames ==
    {"git_status", "git_add", "git_commit", "git_init", "git_branch_rename",
     "get_branch_info", "diagnose_git_config", "get_remote_url",
     "git_remote_add", "git_push", Doc, "resolve_conflicts",
     "get_merge_conflicts", "validate_git_repository", "git_reinitialize"}

Message(role, content, calls, id) ==
    [role |-> role, content |-> content, tool_calls |-> calls,
     tool_call_id |-> id]
NoId == <<>>
SystemMessage == Message("system", "system prompt", <<>>, NoId)
HumanMessage == Message("human", "user_command", <<>>, NoId)
AIMessage(calls) == Message("ai", "text", calls, NoId)
ToolMessage(content, id) == Message("tool", content, <<>>, id)

\* the tool names of the responses the chat model gives: no tool call, the
\* documentation tool twice, or a known tool, an unknown tool and the
\* documentation tool
LLMResponses == {<<>>, <<Doc, Doc>>, <<"git_status", "git_pull", Doc>>}

\* the tool calls of a response of iteration it
ToolCalls(names, it) ==
    [k \in 1..Len(names) |-> [name |-> names[k], id |-> <<it, k>>]]

InitAgent ==
    /\ git_unmerged = <<>> /\ layout = <<>> /\ disk = <<>>
    /\ orig_disk = <<>> /\ readable = <<>>
    /\ strategy = None
    /\ index = {} /\ git_ok = TRUE /\ llm_loads = TRUE
    /\ pc = "idle" /\ conflicted_files = <<>>
    /\ RunIdle /\ ApplyIdle /\ MergeIdle /\ ListIdle
    /\ a_pc = "loop"
    /\ messages = <<SystemMessage, HumanMessage>>
    /\ response = <<>> /\ iteration = 0 /\ tool_call_tracker = {}
    /\ tci = 1 /\ executed = <<>> /\ chat_history = <<>>

otherVars ==
    <<disk, index, envVars, pc, runVars, applyVars, mergeVars, listVars>>

\* one pass of the while loop up to the tool calls: the chat model is
\* invoked (it may raise, which ends the run in the handler at the bottom)
\* and its response is appended
AgentInvoke ==
    /\ a_pc = "loop" /\ iteration < max_iterations
    /\ iteration' = iteration + 1
    /\ \/ /\ a_pc' = "failed"
          /\ UNCHANGED <<messages, response, tci>>
       \/ \E names \in LLMResponses :
             /\ response' = ToolCalls(names, iteration')
             /\ messages' = Append(messages, AIMessage(response'))
             /\ a_pc' = IF response' = <<>> THEN "save" ELSE "tools"
             /\ tci' = 1
    /\ UNCHANGED <<tool_call_tracker, executed, chat_history, otherVars>>

\* a faulty variant: the repeated call is skipped without an answer
skip_without_answer(msgs, id) == msgs

\* the repeated documentation call is answered without being executed
answer_suppressed(msgs, id) ==
    Append(msgs, ToolMessage("Documentation already generated.", id))

\* one pass of the loop over response.tool_calls; a tool that raises ends
\* the run in the handler at the bottom
AgentTool ==
    /\ a_pc = "tools" /\ tci <= Len(response)
    /\ LET tool_name == response[tci].name
           id == response[tci].id
           next == IF tci = Len(response) THEN "loop" ELSE "tools"
       IN  IF tool_name = Doc /\ tool_name \in tool_call_tracker
           THEN /\ messages' = answer_suppressed(messages, id)
                /\ a_pc' = next /\ tci' = tci + 1
                /\ UNCHANGED <<tool_call_tracker, executed>>
           ELSE /\ tool_call_tracker' =
                      IF tool_name = Doc
                      THEN tool_call_tracker \cup {tool_name}
                      ELSE tool_call_tracker
                /\ IF tool_name \in ToolNames
                   THEN /\ executed' = Append(executed, response[tci])
                        /\ \/ /\ messages' =
                                    Append(messages, ToolMessage("result", id))
                              /\ a_pc' = next /\ tci' = tci + 1
                           \/ /\ a_pc' = "failed"
                              /\ UNCHANGED <<messages, tci>>
                   ELSE /\ messages' =
                              Append(messages,
                                     ToolMessage("Tool {tool_name} not found", id))
                        /\ a_pc' = next /\ tci' = tci + 1
                        /\ UNCHANGED executed
    /\ UNCHANGED <<response, iteration, chat_history, otherVars>>

\* after the loop (a response without tool calls, or max_iterations
\* passes): the messages but the system message become the chat history
AgentSave ==
    /\ a_pc = "save" \/ (a_pc = "loop" /\ iteration >= max_iterations)
    /\ chat_history' = Tail(messages)
    /\ a_pc' = "done"
    /\ UNCHANGED <<messages, response, iteration, tool_call_tracker, tci,
                   executed, otherVars>>

NextAgent == AgentInvoke \/ AgentTool \/ AgentSave

SpecAgent == InitAgent /\ [][NextAgent]_vars

(***************************************************************************)
(* Claims                                                                  *)
(***************************************************************************)
\* the lines a file with this layout holds on the current side: its context
\* lines and, in place of each block, the block's current-side lines
RECURSIVE OursLines(_)
OursLines(segs) ==
    IF segs = <<>> THEN <<>>
    ELSE Head(segs).current \o OursLines(Tail(segs))

Ours(segs) == Join(OursLines(segs))

\* no content line of a block of the layout looks like a marker
WellFormed(segs) ==
    \A k \in 1..Len(segs) :
       /\ segs[k].kind \in {"context", "conflict"}
       /\ \A side \in {segs[k].current, segs[k].base, segs[k].incoming} :
          \A n \in 1..Len(side) :
             /\ ~StartsBegin(side[n]) /\ ~StartsSep(side[n])
             /\ ~StartsBase(side[n]) /\ ~StartsEnd(side[n])

Blocks(segs) == {k \in 1..Len(segs) : segs[k].kind = "conflict"}

\* C1: apply_resolution writes the file only if the final whole-file
\* validation passed; when that validation fails it returns (False, error)
\* and the file on disk is what it was before the call.
C1_WriteOnlyIfValid ==
    pc = "applied" =>
       /\ (disk[file_path] # orig_disk[file_path] => final_valid = "True")
       /\ (file_path \in written => final_valid = "True")
       /\ (final_valid = "False" =>
              /\ ~success
              /\ error.msg = "Final validation failed: {error}"
              /\ disk = orig_disk)

\* C1 witness: apply_resolution returned after its final validation failed.
C1_Witness ==
    /\ pc = "applied" /\ final_valid = "False"
    /\ Len(conflicts) > 0

\* C3: for a file of N >= 0 well-formed conflicts, parsing, resolving each
\* conflict with keep-current and reconstructing in parse order yields the
\* context lines plus each block's current-side lines, no line added.
C3_RoundTrip ==
    (/\ pc = "applied" /\ strat = "current"
     /\ readable[file_path]
     /\ order = InOrder(Len(conflicts))
     /\ WellFormed(layout[file_path]))
    => resolved_content = Ours(layout[file_path])

\* C4: apply_resolution yields the same content for every order of the
\* (conflict, resolution) pairs as for the pairs in ascending start_line order.
C4_OrderIndependent ==
    (pc = "applied" /\ readable[file_path])
    => resolved_content =
          Reconstruct(ReadText(orig_disk[file_path]), conflicts, resolutions)

\* every oracle call of this merge_both returned text that fails validate()
AllInvalid ==
    /\ Len(oracle_log) >= 1
    /\ \A k \in 1..Len(oracle_log) : oracle_log[k].outcome = "invalid"

\* C5: with an oracle that returns syntactically invalid text on every
\* call, merge_both makes exactly max_retries fix attempts after the merge
\* call and returns is_valid = False; for every max_retries >= 0 the loop
\* ends: it makes at most max_retries passes, one fix attempt each.
C5_RetryBound ==
    /\ fix_calls = retry_count
    /\ fix_calls <= max_retries
    /\ (mpc = "returned" /\ AllInvalid) =>
          /\ fix_calls = max_retries
          /\ Len(oracle_log) = 1 + max_retries
          /\ m_ret[2] = FALSE

\* C5 witness: the default max_retries = 2, every response invalid, returned.
C5_Witness ==
    /\ mpc = "returned" /\ AllInvalid
    /\ max_retries = 2 /\ fix_calls = 2

\* C6: if the oracle call raises at any stage of merge_both (the merge
\* prompt or any fix prompt), merge_both returns the incoming side's text
\* with is_valid = False.
C6_FallbackOnAnyRaise ==
    (/\ mpc = "returned"
     /\ \E k \in 1..Len(oracle_log) : oracle_log[k].outcome = "raised")
    => m_ret = <<incoming_text(m_conflict), FALSE>>

(***************************************************************************)
(* Claims about a whole run of resolve_conflicts                           *)
(***************************************************************************)
\* the names in the failure list, in order
FailedNames == [k \in 1..Len(failed_files) |-> failed_files[k][1]]

\* how many entries of the failure list name f
Entries(f) == Cardinality({k \in 1..Len(failed_files) : failed_files[k][1] = f})

\* the conflicts the parser finds in f as the run found it
ConflictCount(f) == Len(parse_content(ReadText(orig_disk[f]), f))

RECURSIVE SumCounts(_)
SumCounts(files) ==
    IF files = {} THEN 0
    ELSE LET f == CHOOSE x \in files : TRUE
         IN  ConflictCount(f) + SumCounts(files \ {f})

\* the loop over the files was entered
LoopEntered == conflicted_files # <<>> /\ llm_loads /\ pc # "start"

\* the files whose pass through the loop body is over
Processed == {conflicted_files[k] : k \in 1..(fi - 1)}

\* the file apply_resolution was last called on, while its locals are kept
AppliedFile == conflicted_files[IF pc = "stage" THEN fi ELSE fi - 1]

\* C2: a file is in the index only if its content passed the final
\* validation and was written; staging is only reached after such a write;
\* a file whose reconstruction fails the final validation is entered in the
\* failure list, and no file of the failure list is ever in the index.
C2_StagedOnlyIfValidWritten ==
    /\ \A f \in index :
          /\ f \in written
          /\ validate(f, ReadText(disk[f])).ok
          /\ Entries(f) = 0
    /\ pc = "stage" =>
          /\ success /\ final_valid = "True"
          /\ file_path \in written
          /\ disk[file_path] = WrittenImage(resolved_content)
    /\ (pc \in {"file", "done"} /\ final_valid = "False") =>
          /\ AppliedFile \notin index
          /\ failed_files[Len(failed_files)] = <<AppliedFile, error>>
          /\ error.msg = "Final validation failed: {error}"

C2_Witness ==
    /\ pc = "done" /\ index # {}
    /\ \E k \in 1..Len(failed_files) :
          failed_files[k][2].msg = "Final validation failed: {error}"

\* C7: with "interactive" or an unrecognized strategy the run goes from its
\* start straight to its end with status error: the conflicted files are
\* not listed, no file is read or written, no oracle call is made and
\* nothing is staged.
C7_StrategyRejectedFirst ==
    Lower(strategy) \notin {"current", "incoming", "both"} =>
       /\ pc \in {"start", "done"}
       /\ pc = "done" => result.status = "error"
       /\ disk = orig_disk /\ written = {} /\ index = {}
       /\ conflicted_files = <<>> /\ conflicts = <<>> /\ fi = 1
       /\ analyses = <<>> /\ resolutions = <<>>
       /\ mpc = "idle" /\ oracle_log = <<>>
       /\ failed_files = <<>> /\ total_conflicts = 0

C7_Witness ==
    /\ pc = "done" /\ strategy = "theirs" /\ result.status = "error"
    /\ Len(git_unmerged) = 2

C9_Accounting ==
    LoopEntered =>
       /\ resolved_count = SumCounts(index)
       /\ index \subseteq written \cap Processed
       /\ \A f \in Processed : Entries(f) = IF f \in index THEN 0 ELSE 1
       /\ Len(failed_files) = Cardinality(Processed \ index)
       /\ pc = "done" =>
             /\ Processed = Range(conflicted_files)
             /\ result.resolved = SumCounts(index)

\* two files with one conflict each, keep-current, one of them fails the
\* final validation: partial, resolved = 1, one entry naming that file
C9_Witness ==
    /\ pc = "done" /\ strat = "current" /\ Len(conflicted_files) = 2
    /\ \A f \in Range(conflicted_files) : ConflictCount(f) = 1
    /\ result.status = "partial" /\ result.resolved = 1
    /\ Len(failed_files) = 1
    /\ failed_files[1][2].msg = "Final validation failed: {error}"
    /\ Range(conflicted_files) \ index = {failed_files[1][1]}

\* C10: after apply_resolution has reconstructed a file, the file is written
\* only if the reconstructed content passes the validator, and it is
\* written whenever that content passes and the write itself raises no I/O
\* error, whatever the per-conflict validity was; staging follows the write.
C10_ValidityAdvisory ==
    (pc \in {"stage", "file", "done"} /\ final_valid # None) =>
       LET passes == validate(AppliedFile, resolved_content).ok
       IN  /\ AppliedFile \in written => passes
           /\ (passes /\ error.msg # "Failed to apply resolution: {e}")
                 => (AppliedFile \in written /\ success)
           /\ ~passes => (disk[AppliedFile] = orig_disk[AppliedFile]
                           /\ AppliedFile \notin index)

C10_Witness ==
    /\ pc = "file" /\ strat = "both" /\ final_valid = "True" /\ ~all_valid
    /\ AppliedFile \in written /\ AppliedFile \in index

\* C11: when the git command that lists the conflicted files exits with a
\* non-zero status, the run ends with status error, never with a success or
\* a no-conflicts result.
C11_GitFailureSurfaced ==
    (pc = "done" /\ ~git_ok) => result.status = "error"

(***************************************************************************)
(* Claims about the parser                                                 *)
(***************************************************************************)
\* the lines of the text the parser was given
ParsedLines == Split(ReadText(orig_disk[file_path]))

\* C12: the parser returns no ConflictRegion for a block whose end marker
\* is missing before the end of the text: every region it returns ends at
\* a line that is there and starts with the end marker.
C12_UnterminatedIsFailure ==
    pc = "resolve_each" =>
       \A k \in 1..Len(conflicts) :
          /\ conflicts[k].end_line < Len(ParsedLines)
          /\ StartsEnd(ParsedLines[conflicts[k].end_line + 1])

\* C13: a conflicted file that cannot be read makes parse_file raise, not
\* return an empty list: in a run the file gets one entry in the failure
\* list, carrying the read error, it is neither written nor staged, its
\* content stays, and it adds nothing to the resolved count.
C13_UnreadableFileFails ==
    LoopEntered =>
       /\ \A f \in Range(conflicted_files) :
             ~readable[f] =>
                /\ f \in Processed
                /\ Entries(f) = 1
                /\ \E k \in 1..Len(failed_files) :
                      failed_files[k] =
                         <<f, Err("Failed to read file {file_path}: {e}", "open", 0)>>
                /\ f \notin written /\ f \notin index
                /\ disk[f] = orig_disk[f]
       /\ resolved_count = SumCounts({f \in index : readable[f]})

C13_Witness ==
    /\ pc = "done" /\ Len(conflicted_files) = 2
    /\ ~readable[conflicted_files[1]]
    /\ conflicted_files[2] \in index
    /\ result.status = "partial" /\ result.resolved = ConflictCount(conflicted_files[2])
    /\ ConflictCount(conflicted_files[1]) >= 1

\* the conflict blocks of a layout, in file order
BlockSeq(segs) == SelectSeq(segs, LAMBDA seg : seg.kind = "conflict")

\* the side of a conflict, or of a block, that a strategy keeps
KeptSide(sides, strategy_member) ==
    IF strategy_member = "current" THEN sides.current ELSE sides.incoming

\* C14: resolve with keep-current returns the conflict's current-side text
\* and True, with keep-incoming the incoming-side text and True, whatever
\* the text is (for a well-formed file: the lines git wrote on that side
\* of the block), and the merger is not called.
C14_KeepSideExact ==
    pc \in {"apply_resolution", "applied"} =>
       /\ all_valid
       /\ Len(resolutions) = Len(conflicts)
       /\ \A k \in 1..Len(conflicts) :
             resolutions[k] =
                Join(IF strat = "current" THEN conflicts[k].current_content
                     ELSE conflicts[k].incoming_content)
       /\ WellFormed(layout[file_path]) =>
             /\ Len(resolutions) = Len(BlockSeq(layout[file_path]))
             /\ \A k \in 1..Len(resolutions) :
                   resolutions[k] =
                      Join(KeptSide(BlockSeq(layout[file_path])[k], strat))
       /\ mpc = "idle" /\ oracle_log = <<>> /\ fix_calls = 0

\* a side that does not validate (no line at all in a .txt file, a broken
\* line in a .py file) was kept and reported valid
C14_Witness ==
    /\ pc = "apply_resolution" /\ all_valid /\ Len(conflicts) >= 1
    /\ ~validate(file_path, resolutions[1]).ok

\* the lines of the text before segment n of a layout
RECURSIVE Offset(_, _)
Offset(segs, n) ==
    IF n = 1 THEN 0 ELSE Offset(segs, n - 1) + Len(Render(segs[n - 1]))

\* the positions in a layout of its conflict blocks, in file order
BlockIdx(segs) ==
    SelectSeq([k \in 1..Len(segs) |-> k], LAMBDA k : segs[k].kind = "conflict")

\* C15: for a text of well-formed blocks the parser returns one region per
\* block, in file order: region k starts at the begin marker of block k and
\* ends at its end marker, the start lines ascend strictly and each region
\* ends before the next one starts (a block that follows an end marker
\* directly is found).
C15_OrderedRegions ==
    (pc = "resolve_each" /\ WellFormed(layout[file_path])) =>
       LET segs == layout[file_path]
           idx == BlockIdx(segs)
       IN  /\ Len(conflicts) = Len(idx)
           /\ \A k \in 1..Len(conflicts) :
                 /\ k <= Len(idx)
                 /\ conflicts[k].start_line = Offset(segs, idx[k])
                 /\ conflicts[k].end_line =
                       Offset(segs, idx[k]) + Len(Render(segs[idx[k]])) - 1
                 /\ StartsBegin(ParsedLines[conflicts[k].start_line + 1])
                 /\ StartsEnd(ParsedLines[conflicts[k].end_line + 1])
           /\ \A k \in 1..(Len(conflicts) - 1) :
                 /\ conflicts[k].start_line < conflicts[k + 1].start_line
                 /\ conflicts[k].end_line < conflicts[k + 1].start_line

\* three blocks, the second right after the end marker of the first
C15_Witness ==
    /\ pc = "resolve_each" /\ WellFormed(layout[file_path])
    /\ Len(conflicts) = 3
    /\ conflicts[2].start_line = conflicts[1].end_line + 1

\* C16: for a block with a base marker the lines between the base marker
\* and the separator are the region's base_content, and its current_content
\* and incoming_content are the lines git wrote on those sides: no base
\* marker and no base line among them; without a base marker base_content
\* is empty.
C16_Diff3Base ==
    (pc = "resolve_each" /\ WellFormed(layout[file_path])) =>
       LET blocks == BlockSeq(layout[file_path])
       IN  /\ Len(conflicts) = Len(blocks)
           /\ \A k \in 1..Len(conflicts) :
                 /\ k <= Len(blocks)
                 /\ conflicts[k].base_content = blocks[k].base
                 /\ conflicts[k].current_content = blocks[k].current
                 /\ conflicts[k].incoming_content = blocks[k].incoming
                 /\ ~blocks[k].diff3 => conflicts[k].base_content = <<>>
                 /\ \A side \in {conflicts[k].current_content,
                                  conflicts[k].incoming_content} :
                       \A n \in 1..Len(side) : ~StartsBase(side[n])

\* a diff3 block after a two-way block
C16_Witness ==
    /\ pc = "resolve_each" /\ WellFormed(layout[file_path])
    /\ Len(conflicts) = 2
    /\ conflicts[1].base_content = <<>>
    /\ conflicts[2].base_content = <<"x = 0">>
    /\ conflicts[2].current_content = <<"x = 1">>

\* no entry of the failure list says that the write of f or its git add
\* failed
NoIOFailure(f) ==
    \A k \in 1..Len(failed_files) :
       failed_files[k][1] = f =>
          failed_files[k][2].msg \notin {"Failed to apply resolution: {e}",
                                         "Failed to stage"}

\* C17: with keep-current or keep-incoming, a readable file in which the
\* parser finds no conflict is reported as a success (staged, no entry in
\* the failure list, nothing added to the resolved count) and its content
\* on disk is what it was, whatever the content is (a failing write or
\* git add aside).
C17_ZeroConflictIdempotent ==
    (LoopEntered /\ strat \in {"current", "incoming"}) =>
       \A f \in Processed :
          (readable[f] /\ ConflictCount(f) = 0 /\ NoIOFailure(f)) =>
             /\ disk[f] = orig_disk[f]
             /\ f \in index
             /\ Entries(f) = 0

\* C18: an oracle that is unavailable or raises never makes the whole run
\* fail: a run with a valid non-interactive strategy that found conflicted
\* files processes every one of them and returns its per-file summary
\* (status success or partial), never status error.
C18_OracleFailureNotFatal ==
    (pc = "done" /\ conflicted_files # <<>>) =>
       /\ result.status \in {"success", "partial"}
       /\ Processed = Range(conflicted_files)

(***************************************************************************)
(* Claims about what merge_both returns                                    *)
(***************************************************************************)
\* the merge call itself raised or returned nothing: no candidate exists
NoCandidate == oracle_log[1].outcome \in {"raised", "empty"}

\* C19 as stated: whatever the oracle does, the flag merge_both returns is
\* true exactly when the text it returns passes validate() for the
\* conflict's file.
C19_FlagIsValidity ==
    mpc = "returned" =>
       m_ret[2] = validate(m_conflict.file_path, m_ret[1]).ok

\* C19: merge_both always returns a (text, is_valid) pair.  When the merge
\* call produced a candidate, the text is the last candidate and is_valid
\* is true exactly when that candidate passes validate() for the conflict's
\* file; when the merge call raised or returned nothing, the pair is the
\* incoming text and False, whether or not that text passes validate().
C19_MergeBothReturnsPair ==
    mpc = "returned" =>
       /\ Len(m_ret) = 2
       /\ m_ret[2] \in BOOLEAN
       /\ IF NoCandidate
          THEN /\ m_ret = <<incoming_text(m_conflict), FALSE>>
               /\ Len(oracle_log) = 1 /\ merged = NoText
          ELSE /\ m_ret[1] = merged
               /\ m_ret[2] = validate(m_conflict.file_path, merged).ok

\* C19 witness: the merge call returned invalid text, a fix attempt made it
\* valid, and merge_both returned it as valid.
C19_Witness ==
    /\ mpc = "returned" /\ m_ret[2] = TRUE
    /\ fix_calls >= 1 /\ oracle_log[1].outcome = "invalid"

(***************************************************************************)
(* Claims about get_merge_conflicts                                        *)
(***************************************************************************)
\* the output holds an entry of this kind
Shown(kind) == \E k \in 1..Len(output) : output[k].kind = kind

\* C20: get_merge_conflicts never changes the repository: on every path (no
\* conflicts, conflicts found, a file that cannot be parsed, an oracle that
\* fails) every working-tree file is what it was and nothing is staged.
C20_ListNeverMutates ==
    /\ disk = orig_disk
    /\ index = {}
    /\ written = {}

\* C20 witness: a finished listing that showed a conflict whose analysis
\* failed and reported a file it could not read.
C20_Witness ==
    /\ pc = "done" /\ result.status = "success" /\ result.total >= 1
    /\ Shown("error")
    /\ \E k \in 1..Len(all_conflicts) :
          all_conflicts[k].analysis = "Analysis failed: {e}"

(***************************************************************************)
(* Claims about the loop body of resolve_conflicts                         *)
(***************************************************************************)
\* C21: the resolutions handed to apply_resolution are as many as the
\* conflicts parsed in the file, and entry i is the resolution made from
\* conflict i: with keep-current and keep-incoming it is resolve() of
\* conflict i; with ai-merge-both the i-th call of merge_both is made on
\* conflict i and its text becomes entry i; apply_resolution receives pair
\* i in position i.
C21_ResolutionsByPosition ==
    /\ pc \in {"apply", "stage"} =>
          /\ Len(resolutions) = Len(conflicts)
          /\ Len(analyses) = Len(conflicts)
          /\ strat \in {"current", "incoming"} =>
                \A k \in 1..Len(conflicts) :
                   resolutions[k] = resolve(conflicts[k], strat)[1]
    /\ pc = "stage" =>
          /\ Len(order) = Len(conflicts)
          /\ \A k \in 1..Len(order) : order[k] = k
    /\ (pc = "resolve" /\ strat = "both") =>
          /\ Len(resolutions) = ci - 1
          /\ ci <= Len(conflicts)
          /\ Len(analyses) = Len(conflicts)
          /\ mpc # "idle" => m_conflict = conflicts[ci]

\* C21 witness: a file with two conflicts was merged by the oracle into two
\* different texts and handed to apply_resolution.
C21_Witness ==
    /\ pc = "stage" /\ strat = "both"
    /\ Len(conflicts) = 2 /\ Len(resolutions) = 2
    /\ resolutions[1] # resolutions[2]

\* the run is inside its loop over the files
InLoop == pc \in {"file", "analyze", "resolve", "apply", "stage"}

\* nothing has been done to f: not written, not staged, not recorded
Untouched(f) ==
    /\ disk[f] = orig_disk[f]
    /\ f \notin written /\ f \notin index
    /\ Entries(f) = 0

\* C22: the files are processed one at a time, each in the order parse,
\* resolve, reconstruct and validate, write, stage: every file before the
\* current one is staged or recorded as failed (never both), every later
\* file is untouched, the current file is untouched until its write, which
\* is the step right before its staging, and the parsed conflicts and any
\* running merge_both belong to the current file.
C22_OneFileAtATime ==
    InLoop =>
       /\ \A k \in 1..Len(conflicted_files) :
             LET f == conflicted_files[k] IN
             /\ k < fi => (f \in index) # (Entries(f) = 1)
             /\ k > fi => Untouched(f)
             /\ (k = fi /\ pc # "stage") => Untouched(f)
             /\ (k = fi /\ pc = "stage") =>
                   /\ f \in written /\ success /\ final_valid = "True"
                   /\ f \notin index /\ Entries(f) = 0
       /\ mpc # "idle" =>
             (pc = "resolve" /\ m_conflict.file_path = file_path)
       /\ pc \in {"analyze", "resolve", "apply", "stage"} =>
             /\ fi <= Len(conflicted_files)
             /\ \A k \in 1..Len(conflicts) :
                   conflicts[k].file_path = file_path

\* C22 witness: the second file has been written and awaits staging while
\* the first one is already staged.
C22_Witness ==
    /\ pc = "stage" /\ fi = 2
    /\ conflicted_files[1] \in index
    /\ disk[conflicted_files[2]] # orig_disk[conflicted_files[2]]

\* a line that is a conflict marker: it starts with the begin marker, is
\* the separator, or starts with the end marker
IsMarkerLine(line) == StartsBegin(line) \/ IsSeparator(line) \/ StartsEnd(line)

\* C23: the candidate merge_both validates, and the text it returns when a
\* candidate exists, holds no conflict-marker line, whatever the oracle
\* answered and wherever the marker line stood in the answer.
C23_NoLeftoverMarker ==
    /\ mpc = "loop" => \A k \in 1..Len(merged) : ~IsMarkerLine(merged[k])
    /\ (mpc = "returned" /\ ~NoCandidate) =>
          \A k \in 1..Len(m_ret[1]) : ~IsMarkerLine(m_ret[1][k])

(***************************************************************************)
(* Claims about the lines the parser takes for markers                     *)
(***************************************************************************)
\* every block is terminated and no content line starts with the begin,
\* base or end marker or is the 7-character separator; a content line may
\* begin with seven '=' characters and go on
ExactlyMarked(segs) ==
    \A k \in 1..Len(segs) :
       /\ segs[k].kind \in {"context", "conflict"}
       /\ \A side \in {segs[k].current, segs[k].base, segs[k].incoming} :
          \A n \in 1..Len(side) :
             /\ ~StartsBegin(side[n]) /\ ~IsSeparator(side[n])
             /\ ~StartsBase(side[n]) /\ ~StartsEnd(side[n])

\* C24: only the line that is exactly the 7-character separator ends the
\* current side: a content line of the current side that begins with seven
\* '=' characters and goes on stays in current_content, and the lines
\* after the separator are the incoming side.
C24_OnlyExactSeparatorSplits ==
    (pc = "resolve_each" /\ ExactlyMarked(layout[file_path])) =>
       LET blocks == BlockSeq(layout[file_path])
       IN  /\ Len(conflicts) = Len(blocks)
           /\ \A k \in 1..Len(conflicts) :
                 /\ k <= Len(blocks)
                 /\ conflicts[k].current_content = blocks[k].current
                 /\ conflicts[k].incoming_content = blocks[k].incoming

\* C25: under ai-merge-both the analyzer is called once per conflict of the
\* file (each call adds one analysis), no merge_both call of the file is
\* made before all its analyses exist, and merge_both for conflict i is
\* given analysis i.
C25_AnalysesFirst ==
    (strat = "both" /\ InLoop) =>
       /\ pc = "analyze" =>
             /\ Len(analyses) = ci - 1 /\ ci <= Len(conflicts)
             /\ mpc = "idle" /\ resolutions = <<>>
       /\ pc \in {"resolve", "apply", "stage"} =>
             Len(analyses) = Len(conflicts)
       /\ mpc # "idle" =>
             /\ Len(analyses) = Len(conflicts)
             /\ m_conflict = conflicts[ci]
             /\ m_analysis = analyses[ci]

\* C25 witness: merge_both is running on the second conflict of a file
\* whose two analyses differ.
C25_Witness ==
    /\ strat = "both" /\ pc = "resolve" /\ mpc = "invoke" /\ ci = 2
    /\ Len(analyses) = 2 /\ analyses[1] # analyses[2]

\* C26: every file named in the failure list has the content it had before
\* the run, a file whose staging failed included (a file whose write itself
\* failed is left aside here).
C26_FailedFilesUntouched ==
    \A k \in 1..Len(failed_files) :
       failed_files[k][2].msg # "Failed to apply resolution: {e}" =>
          disk[failed_files[k][1]] = orig_disk[failed_files[k][1]]

\* C27: after a run with keep-current or keep-incoming no staged file holds
\* a line that starts with the begin marker or with the end marker,
\* whatever text was parsed.
C27_NoMarkerInStagedFile ==
    strat \in {"current", "incoming"} =>
       \A f \in index :
          \A k \in 1..Len(disk[f].lines) :
             /\ ~StartsBegin(disk[f].lines[k])
             /\ ~StartsEnd(disk[f].lines[k])

(***************************************************************************)
(* Termination of a run and the number of its oracle calls                 *)
(***************************************************************************)
\* an upper bound of the steps one file takes: parse, apply, stage, and per
\* conflict one analysis and the six steps of a merge
PerFile == 3 + 7 * MaxRunBlocks

\* how far the running merge_both has got
MergeProgress ==
    IF mpc = "idle" THEN 0
    ELSE IF mpc = "invoke" THEN 1
    ELSE IF mpc = "loop" THEN 2 + retry_count
    ELSE 5

\* an upper bound of the steps the run has left
Rank ==
    IF pc = "done" THEN 0
    ELSE IF pc = "start" THEN 2 + Len(git_unmerged) * PerFile
    ELSE LET base == (Len(conflicted_files) - fi) * PerFile + 1 IN
         IF pc = "file"
         THEN (IF fi > Len(conflicted_files) THEN 1 ELSE base + PerFile)
         ELSE IF pc = "analyze"
         THEN base + 2 + 6 * MaxRunBlocks + (Len(conflicts) - ci + 1)
         ELSE IF pc = "resolve"
         THEN base + 2 + 6 * (Len(conflicts) - ci + 1) - MergeProgress
         ELSE IF pc = "apply" THEN base + 2
         ELSE base + 1

\* the oracle calls made so far for the current file stay within the bound
OracleCallsBounded ==
    /\ strat \in {"current", "incoming"} =>
          /\ mpc = "idle" /\ oracle_log = <<>> /\ fix_calls = 0
          /\ pc # "analyze"
          /\ \A k \in 1..Len(analyses) : analyses[k] = ""
    /\ (strat = "both" /\ InLoop) =>
          /\ Len(analyses) <= Len(conflicts)
          /\ mpc # "idle" => max_retries = DefaultMaxRetries
          /\ Len(oracle_log) <= 1 + max_retries
          /\ fix_calls <= max_retries
          /\ oracle_log # <<>> => Len(oracle_log) = 1 + fix_calls
          /\ \A k \in 1..(Len(oracle_log) - 1) :
                oracle_log[k].outcome # "valid"
          /\ (mpc = "loop" /\ is_valid) => fix_calls = Len(oracle_log) - 1

\* no loop of the run is stuck: the position is one the run knows, and
\* merge_both is only awaited for a conflict that exists
NotStuck ==
    /\ pc \in {"start", "file", "analyze", "resolve", "apply", "stage", "done"}
    /\ pc = "resolve" =>
          /\ strat \in {"current", "incoming", "both"}
          /\ ci <= Min(Len(conflicts), Len(analyses))
    /\ pc = "analyze" => ci <= Len(conflicts)
    /\ mpc \in {"idle", "invoke", "loop", "returned"}

\* C28: a run terminates: every step lowers a bound of the steps left,
\* which is never negative, and no step is awaited that cannot happen.  Its
\* oracle calls are bounded: under ai-merge-both one analysis per conflict
\* and, per merge_both, one merge call and at most max_retries = 2 fix
\* calls, none after a call whose candidate validated; under keep-current
\* and keep-incoming none.
C28_TerminatesBounded ==
    /\ [](Rank >= 0 /\ NotStuck /\ OracleCallsBounded)
    /\ [][Rank' < Rank]_vars

\* C28 witness: in a run under ai-merge-both a merge_both has returned
\* after the merge call and both fix attempts, none of which validated.
C28_Witness ==
    /\ strat = "both" /\ pc = "resolve" /\ mpc = "returned"
    /\ fix_calls = DefaultMaxRetries /\ Len(oracle_log) = 1 + DefaultMaxRetries
    /\ ~m_ret[2]

\* C29: a text merge_both returns with is_valid = True is not the empty
\* string, whatever the file extension and whatever the oracle answered.
C29_ValidIsNonEmpty ==
    (mpc = "returned" /\ m_ret[2]) => m_ret[1] # <<"">>

(***************************************************************************)
(* Claims about AIGitAgent.run                                             *)
(***************************************************************************)
\* the positions of the ToolMessages that carry the id
Answers(id) ==
    {k \in 1..Len(messages) :
        messages[k].role = "tool" /\ messages[k].tool_call_id = id}

\* the position of the last response of the chat model in the messages
LastResponse ==
    IF \E k \in 1..Len(messages) : messages[k].role = "ai"
    THEN CHOOSE k \in 1..Len(messages) :
            /\ messages[k].role = "ai"
            /\ \A n \in (k + 1)..Len(messages) : messages[n].role # "ai"
    ELSE 0

\* the loop over the tool calls of the response at position p has got
\* past call q
Handled(p, q) ==
    \/ p # LastResponse
    \/ a_pc \in {"loop", "save", "done"}
    \/ a_pc \in {"tools", "failed"} /\ q < tci

\* the tool of the call was invoked
WasExecuted(call) == \E k \in 1..Len(executed) : executed[k] = call

\* C30: every tool call of a response the loop has got past is answered
\* by exactly one ToolMessage with its id, placed after the response in
\* the order of the calls and so before the next response of the chat
\* model; a call not yet reached, or whose tool raised and so ended the
\* run, has no answer.  The answer is the result
\* of an executed tool, the not-found text of an unknown tool, or the
\* already-generated text of a repeated generate_version_documentation,
\* which is not executed: that tool is executed at most once in a run.
C30_EveryCallAnswered ==
    /\ \A p \in 1..Len(messages) :
          messages[p].role = "ai" =>
             \A q \in 1..Len(messages[p].tool_calls) :
                LET call == messages[p].tool_calls[q] IN
                IF Handled(p, q)
                THEN /\ Answers(call.id) = {p + q}
                     /\ messages[p + q].content =
                           IF WasExecuted(call) THEN "result"
                           ELSE IF call.name \notin ToolNames
                           THEN "Tool {tool_name} not found"
                           ELSE "Documentation already generated."
                     /\ call.name \notin ToolNames => ~WasExecuted(call)
                     /\ (~WasExecuted(call) /\ call.name \in ToolNames) =>
                           call.name = Doc
                ELSE Answers(call.id) = {}
    /\ \A k \in 1..Len(messages) :
          messages[k].role = "tool" =>
             \E p \in 1..(k - 1) :
                /\ messages[p].role = "ai"
                /\ k - p \in 1..Len(messages[p].tool_calls)
                /\ messages[p].tool_calls[k - p].id = messages[k].tool_call_id
    /\ Cardinality({k \in 1..Len(executed) : executed[k].name = Doc}) <= 1
    /\ a_pc = "done" => chat_history = Tail(messages)

\* C30 witness: a finished run whose history holds the answer to a repeated
\* documentation call, the answer to an unknown tool and a tool result.
C30_Witness ==
    /\ a_pc = "done" /\ iteration >= 2
    /\ \E k \in 1..Len(chat_history) :
          chat_history[k].content = "Documentation already generated."
    /\ \E k \in 1..Len(chat_history) :
          chat_history[k].content = "Tool {tool_name} not found"
    /\ \E k \in 1..Len(chat_history) : chat_history[k].content = "result"

====
